---- MODULE Spec2Model ----
(***************************************************************************)
(* A model of AsyncSocketContext (web/src/util/async_sockets.ts) and of    *)
(* the Status algebra (web/src/util/status.ts): the three frame kinds over *)
(* one WebSocket, the table of outstanding calls with its deadline timers, *)
(* the listener registry and the JSON codec with Status substitution.      *)
(*                                                                         *)
(* JavaScript values are tagged records: [t |-> "null"], [t |-> "str", v], *)
(* [t |-> "num", v], [t |-> "arr", v |-> <<...>>] and [t |-> "obj", v |->  *)
(* a function from keys to values].  A Status is the plain object the code *)
(* builds, {status, value} or {status, message}.                           *)
(***************************************************************************)
EXTENDS Integers, Sequences, FiniteSets, Bags, TLC

VARIABLES
  readyState,         \* this.socket.readyState
  listeners,          \* this.listeners: event name -> ListenerInfo (or NoListener)
  outstanding_calls,  \* this.outstanding_calls: the uuids that have an entry
  timers,             \* the timeoutId of each call: "unset", "armed", "cleared", "fired"
  promises,           \* the promise returned by each call()
  callEvent,          \* the event_name captured by each call's closures
  resolvers,          \* who has invoked each call's resolve: "response", "timeout"
  nextUuid,           \* number of uuids minted by uuidv4()
  emitted,            \* number of emit() invocations
  handled,            \* number of inbound Call frames that reached a call handler
  workload,           \* what the application and the peer do in this run
  sent,               \* the text frames the transport accepted from socket.send (a bag)
  running,            \* handleCall invocations suspended at their await (a bag)
  reconnects,         \* number of periodicallyTryReconnect invocations
  last,               \* the step just taken: what it logged and did (history)
  probe               \* a function of status.ts or of the codec applied to an input

vars == <<readyState, listeners, outstanding_calls, timers, promises, callEvent,
          resolvers, nextUuid, emitted, handled, workload, sent, running,
          reconnects, last, probe>>

----------------------------------------------------------------------------
(* Bounds of the model. *)

MaxCalls == 2      \* calls issued with call() in one run
MaxEmits == 1      \* notifications sent with emit() in one run
MaxHandled == 1    \* inbound Call frames that reach a call handler in one run
MaxInFlight == 2   \* the same in a run where the peer is the one that calls

\* The runs explored: the application only calls; it only registers handlers
\* and the peer calls them; it does a little of both; it only emits.
Workloads ==
  {[calls |-> MaxCalls, emits |-> 0, handled |-> 0, registers |-> FALSE],
   [calls |-> 0, emits |-> 0, handled |-> MaxHandled, registers |-> TRUE],
   [calls |-> 1, emits |-> 0, handled |-> 1, registers |-> TRUE],
   [calls |-> 0, emits |-> MaxEmits, handled |-> 0, registers |-> FALSE]}

----------------------------------------------------------------------------
(* JavaScript values. *)

Null == [t |-> "null"]
Undefined == [t |-> "undefined"]
Str(s) == [t |-> "str", v |-> s]
Num(n) == [t |-> "num", v |-> n]
Arr(s) == [t |-> "arr", v |-> s]
Obj(f) == [t |-> "obj", v |-> f]

IsObject(x) == x.t \in {"obj", "arr"}
IsString(x) == x.t = "str"
IsArray(x) == x.t = "arr"

\* The keys of a value for JavaScript's `in` operator (string keys only; an
\* array has no such own key among those the code asks for).
Keys(x) == IF x.t = "obj" THEN DOMAIN x.v ELSE {}
Has(k, x) == k \in Keys(x)
\* x.k: reading a property the value does not have yields undefined.
Get(x, k) == IF Has(k, x) THEN x.v[k] ELSE Undefined

----------------------------------------------------------------------------
(* status.ts *)

StatusCode == {"Ok", "MessageTimeout", "NotFound"}

\* `status.status in StatusCode`: the `in` operator also finds the properties
\* the enum object inherits from Object.prototype.
ObjectPrototypeKeys == {"constructor", "toString", "valueOf", "hasOwnProperty"}
InStatusCode(s) == s \in StatusCode \cup ObjectPrototypeKeys

makeErrStatus(status, message) ==
  Obj([status |-> Str(status), message |-> Str(message)])

makeOkStatus(value) == Obj([status |-> Str("Ok"), value |-> value])

isOk(status) == Get(status, "status") = Str("Ok")

isStatus(status) ==
  /\ status # Null
  /\ IsObject(status)
  /\ Has("status", status)
  /\ IsString(Get(status, "status"))
  /\ InStatusCode(Get(status, "status").v)
  /\ \/ (Get(status, "status") = Str("Ok") /\ Has("value", status))
     \/ (Has("message", status) /\ IsString(Get(status, "message")))

isSerializedStatus(status) ==
  /\ status # Null
  /\ IsObject(status)
  /\ Has("status", status)
  /\ Has("payload", status)
  /\ IsString(Get(status, "status"))
  /\ InStatusCode(Get(status, "status").v)
  /\ \/ Get(status, "status") = Str("Ok")
     \/ IsString(Get(status, "payload"))

serializeStatus(status) ==
  IF isOk(status)
    THEN Obj([status |-> Get(status, "status"), payload |-> Get(status, "value")])
    ELSE Obj([status |-> Get(status, "status"), payload |-> Get(status, "message")])

\* deserializeStatus reading the payload as a message whatever the tag.
deserializeStatus_alwaysMessage(status) ==
  Obj([status |-> Get(status, "status"), message |-> Get(status, "payload")])

deserializeStatus(status) ==
  IF Get(status, "status") = Str("Ok")
    THEN Obj([status |-> Get(status, "status"), value |-> Get(status, "payload")])
    ELSE Obj([status |-> Get(status, "status"), message |-> Get(status, "payload")])

----------------------------------------------------------------------------
(* The codec: sendMessage's JSON.stringify with its replacer, parseMessage's *)
(* JSON.parse with its reviver.  A text frame is modelled by the JSON value  *)
(* its text denotes, or by NotJson when the text is no JSON at all.          *)

NotJson == [t |-> "syntax_error"]
Binary == [kind |-> "binary"]
Text(body) == [kind |-> "text", body |-> body]

\* JSON.stringify(data, replacer): the replacer sees each value before its
\* properties are visited; a property whose value is undefined is left out
\* and an undefined array element is written as null.
RECURSIVE Stringify(_)
Stringify(x) ==
  LET y == IF isStatus(x) THEN serializeStatus(x) ELSE x
  IN  CASE y.t = "obj" ->
             Obj([k \in {j \in DOMAIN y.v : y.v[j] # Undefined} |-> Stringify(y.v[k])])
        [] y.t = "arr" ->
             Arr([i \in 1..Len(y.v) |->
                    IF y.v[i] = Undefined THEN Null ELSE Stringify(y.v[i])])
        [] OTHER -> y

\* JSON.parse(text, reviver): the reviver sees each value after its
\* properties have been revived.
RECURSIVE Revive(_)
Revive(x) ==
  LET y == CASE x.t = "obj" -> Obj([k \in DOMAIN x.v |-> Revive(x.v[k])])
             [] x.t = "arr" -> Arr([i \in 1..Len(x.v) |-> Revive(x.v[i])])
             [] OTHER -> x
  IN  IF isSerializedStatus(y) THEN deserializeStatus(y) ELSE y

parseMessage(data) ==
  IF data.kind # "text" THEN Null
  ELSE IF data.body = NotJson THEN Null
  ELSE Revive(data.body)

----------------------------------------------------------------------------
(* The frame shape predicates. *)

isEmitMessage(message) ==
  /\ message # Null
  /\ IsObject(message)
  /\ Has("event", message)
  /\ IsString(Get(message, "event"))
  /\ Has("args", message)
  /\ IsArray(Get(message, "args"))

isCallMessage(message) ==
  /\ message # Null
  /\ IsObject(message)
  /\ Has("event", message)
  /\ IsString(Get(message, "event"))
  /\ Has("uuid", message)
  /\ IsString(Get(message, "uuid"))
  /\ Has("args", message)
  /\ IsArray(Get(message, "args"))

isResponseMessage(message) ==
  /\ message # Null
  /\ IsObject(message)
  /\ Has("uuid", message)
  /\ IsString(Get(message, "uuid"))
  /\ Has("status", message)
  /\ isStatus(Get(message, "status"))

isMessage(message) ==
  /\ message # Null
  /\ IsObject(message)
  /\ \/ (Has("emit", message) /\ isEmitMessage(Get(message, "emit")))
     \/ (Has("call", message) /\ isCallMessage(Get(message, "call")))
     \/ (Has("response", message) /\ isResponseMessage(Get(message, "response")))

----------------------------------------------------------------------------
(* The event maps the context is instantiated with, and the names the type *)
(* parameters of emit, on, call and respond admit.  The maps extend those   *)
(* of OnoroSocket (new_game_req / new_game_res) with a pair this endpoint   *)
(* answers (get_req / get_res), a notification each way (get, ping) and a   *)
(* request that has no response form (lonely_req).                          *)

ListenEvents == {"new_game_res", "get_req", "get"}
EmitEvents == {"new_game_req", "get_res", "ping", "lonely_req"}

\* The candidates for `infer T`.
BaseNames == {"new_game", "get", "ping", "lonely"}

ToReqEventName(name) == name \o "_req"
ToResEventName(name) == name \o "_res"

ToRequestEvents(Events) == {T \in BaseNames : ToReqEventName(T) \in Events}
ToResponseEvents(Events) == {T \in BaseNames : ToResEventName(T) \in Events}

\* The call names without the intersection with the response events.
CallResponseEvents_requestOnly(ResEvents, ReqEvents) == ToRequestEvents(ReqEvents)

CallResponseEvents(ResEvents, ReqEvents) ==
  ToRequestEvents(ReqEvents) \cap ToResponseEvents(ResEvents)

EmitEventNames(Listen, Emit) ==
  Emit \ ({ToReqEventName(T) : T \in CallResponseEvents(Listen, Emit)}
           \cup {ToResEventName(T) : T \in CallResponseEvents(Emit, Listen)})

OnEventNames(Listen, Emit) ==
  Listen \ ({ToResEventName(T) : T \in CallResponseEvents(Listen, Emit)}
             \cup {ToReqEventName(T) : T \in CallResponseEvents(Emit, Listen)})

----------------------------------------------------------------------------
(* The state of one AsyncSocketContext. *)

\* this.timeout, set by the constructor and never changed.
timeout == 1000

\* uuidv4(): the n-th identifier minted on this connection.
Uuid(n) == "uuid-" \o ToString(n)
Uuids == {Uuid(n) : n \in 1..MaxCalls}

\* The names a frame may carry or a registration may use.
ListenerNames ==
  OnEventNames(ListenEvents, EmitEvents)
    \cup CallResponseEvents(EmitEvents, ListenEvents) \cup {"nope"}

\* The callbacks application code registers.
Callbacks == {"f", "g"}

NoListener == [type |-> "none", callback |-> "none"]
EmitListenerInfo(callback) == [type |-> "emit", callback |-> callback]
CallListenerInfo(callback) == [type |-> "call", callback |-> callback]

\* A promise: pending until its resolve is first invoked or its executor throws.
NoPromise == [state |-> "none", value |-> Undefined]
PendingPromise == [state |-> "pending", value |-> Undefined]
Fulfilled(value) == [state |-> "fulfilled", value |-> value]
Rejected(error) == [state |-> "rejected", value |-> Str(error)]

\* resolve(value) on a promise: settles it only if it is still pending.
Resolve(promise, value) ==
  IF promise.state = "pending" THEN Fulfilled(value) ELSE promise

\* What a step did: the operation, the line it logged, the event or uuid
\* it was about, whether it threw, and the callbacks it invoked.
Step(op, log, arg, threw, invoked) ==
  [op |-> op, log |-> log, arg |-> arg, threw |-> threw, invoked |-> invoked]

Invocation(callback, args) == [callback |-> callback, args |-> args]

\* A probe: the function applied, its input and its result.
Probe(op, input, output) == [op |-> op, input |-> input, output |-> output]
NoProbe == Probe("none", Null, Null)

\* The fields as the constructor leaves them.
Constructed ==
  /\ readyState = "CONNECTING"
  /\ listeners = [e \in ListenerNames |-> NoListener]
  /\ outstanding_calls = {}
  /\ timers = [u \in Uuids |-> "unset"]
  /\ promises = [u \in Uuids |-> NoPromise]
  /\ callEvent = [u \in Uuids |-> "none"]
  /\ resolvers = [u \in Uuids |-> {}]
  /\ nextUuid = 0
  /\ emitted = 0
  /\ handled = 0
  /\ sent = EmptyBag
  /\ running = EmptyBag
  /\ reconnects = 0
  /\ last = Step("constructor", "", Null, FALSE, <<>>)

Init ==
  /\ Constructed
  /\ workload \in Workloads
  /\ probe = NoProbe

----------------------------------------------------------------------------
(* Sending. *)

\* WebSocket.send: throws InvalidStateError while the socket is connecting,
\* transmits while it is open, and discards the data once it is closing or
\* closed.
SendThrows == readyState = "CONNECTING"

sendMessage(data) ==
  IF readyState = "OPEN"
    THEN sent (+) SetToBag({Text(Stringify(data))})
    ELSE sent

EmitFrame(event_name, args) ==
  Obj([emit |-> Obj([event |-> Str(event_name), args |-> Arr(args)])])

CallFrame(event_name, uuid, args) ==
  Obj([call |-> Obj([event |-> Str(event_name), uuid |-> Str(uuid),
                     args |-> Arr(args)])])

ResponseFrame(uuid, status) ==
  Obj([response |-> Obj([uuid |-> uuid, status |-> status])])

----------------------------------------------------------------------------
(* The operations application code invokes. *)

\* The argument lists application code passes to emit.
EmitArgs == {<<>>, <<Str("a")>>}

emit(event_name, args) ==
  /\ event_name \in EmitEventNames(ListenEvents, EmitEvents)
  /\ emitted < workload.emits
  /\ emitted' = emitted + 1
  /\ sent' = sendMessage(EmitFrame(event_name, args))
  /\ last' = Step("emit", "", Str(event_name), SendThrows, <<>>)
  /\ UNCHANGED <<readyState, listeners, outstanding_calls, timers, promises,
                 callEvent, resolvers, nextUuid, handled, workload, probe, running,
                 reconnects>>

\* on() keeping the entry a name already has.
on_keepsFirst(event_name, callback) ==
  /\ workload.registers
  /\ event_name \in OnEventNames(ListenEvents, EmitEvents)
  /\ listeners' = [listeners EXCEPT ![event_name] =
                     IF @ = NoListener THEN EmitListenerInfo(callback) ELSE @]
  /\ last' = Step("on", "", Str(event_name), FALSE, <<>>)
  /\ UNCHANGED <<readyState, outstanding_calls, timers, promises, callEvent,
                 resolvers, nextUuid, emitted, handled, workload, probe, sent, running, reconnects>>

on(event_name, callback) ==
  /\ workload.registers
  /\ event_name \in OnEventNames(ListenEvents, EmitEvents)
  /\ listeners' = [listeners EXCEPT ![event_name] = EmitListenerInfo(callback)]
  /\ last' = Step("on", "", Str(event_name), FALSE, <<>>)
  /\ UNCHANGED <<readyState, outstanding_calls, timers, promises, callEvent,
                 resolvers, nextUuid, emitted, handled, workload, probe, sent, running, reconnects>>

respond(event_name, callback) ==
  /\ workload.registers
  /\ event_name \in CallResponseEvents(EmitEvents, ListenEvents)
  /\ listeners' = [listeners EXCEPT ![event_name] = CallListenerInfo(callback)]
  /\ last' = Step("respond", "", Str(event_name), FALSE, <<>>)
  /\ UNCHANGED <<readyState, outstanding_calls, timers, promises, callEvent,
                 resolvers, nextUuid, emitted, handled, workload, probe, sent, running, reconnects>>

\* call() sending the frame before it arms the timer and stores the entry:
\* an exception of send leaves nothing stored.
call_sendsFirst(event_name) ==
  /\ event_name \in CallResponseEvents(ListenEvents, EmitEvents)
  /\ nextUuid < workload.calls
  /\ LET uuid == Uuid(nextUuid + 1)
     IN  /\ nextUuid' = nextUuid + 1
         /\ timers' = IF SendThrows THEN timers
                       ELSE [timers EXCEPT ![uuid] = "armed"]
         /\ callEvent' = [callEvent EXCEPT ![uuid] = event_name]
         /\ outstanding_calls' = IF SendThrows THEN outstanding_calls
                                  ELSE outstanding_calls \cup {uuid}
         /\ sent' = sendMessage(CallFrame(event_name, uuid, <<>>))
         /\ promises' = [promises EXCEPT ![uuid] =
                           IF SendThrows THEN Rejected("InvalidStateError")
                           ELSE PendingPromise]
         /\ last' = Step("call", "calling", Str(uuid), SendThrows, <<>>)
  /\ UNCHANGED <<readyState, listeners, resolvers, emitted, handled, workload, probe,
                 running, reconnects>>

\* call() keying every call with the same uuid.
call_sameUuid(event_name) ==
  /\ event_name \in CallResponseEvents(ListenEvents, EmitEvents)
  /\ nextUuid < workload.calls
  /\ LET uuid == Uuid(1)
     IN  /\ nextUuid' = nextUuid + 1
         /\ timers' = [timers EXCEPT ![uuid] = "armed"]
         /\ callEvent' = [callEvent EXCEPT ![uuid] = event_name]
         /\ outstanding_calls' = outstanding_calls \cup {uuid}
         /\ sent' = sendMessage(CallFrame(event_name, uuid, <<>>))
         /\ promises' = [promises EXCEPT ![uuid] =
                           IF SendThrows THEN Rejected("InvalidStateError")
                           ELSE PendingPromise]
         /\ last' = Step("call", "calling", Str(uuid), SendThrows, <<>>)
  /\ UNCHANGED <<readyState, listeners, resolvers, emitted, handled, workload, probe,
                 running, reconnects>>

\* call(): the promise's executor mints the uuid, arms the timer, stores the
\* entry and sends; an exception of send leaves the executor and rejects the
\* promise.  The request forms of the event maps take no parameters.
call(event_name) ==
  /\ event_name \in CallResponseEvents(ListenEvents, EmitEvents)
  /\ nextUuid < workload.calls
  /\ LET uuid == Uuid(nextUuid + 1)
     IN  /\ nextUuid' = nextUuid + 1
         /\ timers' = [timers EXCEPT ![uuid] = "armed"]
         /\ callEvent' = [callEvent EXCEPT ![uuid] = event_name]
         /\ outstanding_calls' = outstanding_calls \cup {uuid}
         /\ sent' = sendMessage(CallFrame(event_name, uuid, <<>>))
         /\ promises' = [promises EXCEPT ![uuid] =
                           IF SendThrows THEN Rejected("InvalidStateError")
                           ELSE PendingPromise]
         /\ last' = Step("call", "calling", Str(uuid), SendThrows, <<>>)
  /\ UNCHANGED <<readyState, listeners, resolvers, emitted, handled, workload, probe,
                 running, reconnects>>

\* A call site whose event name the type parameter of call() does not admit
\* is rejected when the program is compiled: nothing runs.
callTypeError(event_name) ==
  /\ event_name \in BaseNames
  /\ event_name \notin CallResponseEvents(ListenEvents, EmitEvents)
  /\ last' = Step("call_type_error", "", Str(event_name), FALSE, <<>>)
  /\ UNCHANGED <<readyState, listeners, outstanding_calls, timers, promises,
                 callEvent, resolvers, nextUuid, emitted, handled, workload, probe, sent, running, reconnects>>

----------------------------------------------------------------------------
(* The deadline timer. *)

\* The message with its plural chosen the wrong way round.
TimeoutMessage_plural(event_name, timeout_ms) ==
  "Async socket call " \o event_name \o " timed out after "
    \o ToString(timeout_ms \div 1000) \o " second"
    \o (IF timeout_ms = 1000 THEN "s" ELSE "")

\* The message addTimeout builds; timeout_ms / 1000 is exact for the only
\* timeout the constructor sets.
TimeoutMessage(event_name, timeout_ms) ==
  "Async socket call " \o event_name \o " timed out after "
    \o ToString(timeout_ms \div 1000) \o " second"
    \o (IF timeout_ms = 1000 THEN "" ELSE "s")

\* The timer callback sweeping every pending call instead of its own.
addTimeout_sweepsAll(uuid) ==
  /\ timers[uuid] = "armed"
  /\ timers' = [u \in Uuids |-> IF timers[u] = "armed" THEN "fired" ELSE timers[u]]
  /\ outstanding_calls' = {}
  /\ resolvers' = [u \in Uuids |->
                     IF timers[u] = "armed" THEN resolvers[u] \cup {"timeout"}
                     ELSE resolvers[u]]
  /\ promises' = [u \in Uuids |->
                    IF timers[u] = "armed"
                      THEN Resolve(promises[u],
                                   makeErrStatus("MessageTimeout",
                                                 TimeoutMessage(callEvent[u], timeout)))
                      ELSE promises[u]]
  /\ last' = Step("timeout", "", Str(uuid), FALSE, <<>>)
  /\ UNCHANGED <<readyState, listeners, callEvent, nextUuid, emitted, handled, workload, probe, sent,
                 running, reconnects>>

\* The callback addTimeout schedules, run when the timer of `uuid` fires.
addTimeout(uuid) ==
  /\ timers[uuid] = "armed"
  /\ timers' = [timers EXCEPT ![uuid] = "fired"]
  /\ outstanding_calls' = outstanding_calls \ {uuid}
  /\ resolvers' = [resolvers EXCEPT ![uuid] = @ \cup {"timeout"}]
  /\ promises' = [promises EXCEPT ![uuid] =
                    Resolve(@, makeErrStatus("MessageTimeout",
                                             TimeoutMessage(callEvent[uuid], timeout)))]
  /\ last' = Step("timeout", "", Str(uuid), FALSE, <<>>)
  /\ UNCHANGED <<readyState, listeners, callEvent, nextUuid, emitted, handled, workload, probe, sent,
                 running, reconnects>>

----------------------------------------------------------------------------
(* Inbound frames. *)

\* this.listeners.get(event): undefined unless the key is a registered name.
Listener(event) ==
  IF IsString(event) /\ event.v \in DOMAIN listeners
    THEN listeners[event.v] ELSE NoListener

\* callback(...args): an array is spread into the arguments.  Spreading
\* null or undefined throws a TypeError in an ES2015 build and passes no
\* argument in a build that lowers the call to callback.apply.
SpreadOutcomes(callback, args) ==
  IF IsArray(args)
    THEN {[threw |-> FALSE, invoked |-> <<Invocation(callback, args.v)>>]}
    ELSE {[threw |-> TRUE, invoked |-> <<>>],
          [threw |-> FALSE, invoked |-> <<Invocation(callback, <<>>)>>]}

\* A step of onMessage that changes nothing but what was logged.
Logged(log, arg, threw, invoked) ==
  /\ last' = Step("onMessage", log, arg, threw, invoked)
  /\ UNCHANGED <<readyState, listeners, outstanding_calls, timers, promises,
                 callEvent, resolvers, nextUuid, emitted, handled, workload, probe, sent, running, reconnects>>

handleEmit(message) ==
  LET event_info == Listener(Get(message, "event"))
  IN  IF message = Null
        THEN \* message.event of null
             Logged("TypeError", Null, TRUE, <<>>)
      ELSE IF event_info = NoListener
        THEN Logged("Unknown emit event", Get(message, "event"), FALSE, <<>>)
      ELSE IF event_info.type # "emit"
        THEN Logged("Received emit for call/response message",
                    Get(message, "event"), FALSE, <<>>)
      ELSE \E o \in SpreadOutcomes(event_info.callback, Get(message, "args")) :
             Logged("handling emit", Get(message, "event"), o.threw, o.invoked)

\* handleCall without the test of the listener's type.
handleCall_anyKind(message) ==
  LET event_info == Listener(Get(message, "event"))
  IN  IF message = Null
        THEN Logged("TypeError", Null, TRUE, <<>>)
      ELSE IF event_info = NoListener
        THEN Logged("Unknown call event", Get(message, "event"), FALSE, <<>>)
      ELSE /\ handled < workload.handled
           /\ handled' = handled + 1
           /\ \E o \in SpreadOutcomes(event_info.callback, Get(message, "args")) :
                /\ last' = Step("onMessage", "handling call", Get(message, "event"),
                                o.threw, o.invoked)
                /\ running' =
                     IF o.threw THEN running
                     ELSE running (+) SetToBag({[uuid |-> Get(message, "uuid"),
                                                 event |-> Get(message, "event"),
                                                 invocation |-> o.invoked[1]]})
           /\ UNCHANGED <<readyState, listeners, outstanding_calls, timers,
                          promises, callEvent, resolvers, nextUuid, emitted,
                          workload, probe, sent, reconnects>>

\* handleCall up to its await: the callback is invoked and the invocation
\* stays suspended until the callback's promise settles.
\* handleCall answering a call of an unknown event with an error response.
handleCall_answersUnknown(message) ==
  LET event_info == Listener(Get(message, "event"))
  IN  IF message = Null
        THEN Logged("TypeError", Null, TRUE, <<>>)
      ELSE IF event_info = NoListener
        THEN /\ sent' = sendMessage(ResponseFrame(Get(message, "uuid"),
                                                   makeErrStatus("NotFound", "unknown event")))
             /\ last' = Step("onMessage", "Unknown call event",
                             Get(message, "event"), FALSE, <<>>)
             /\ UNCHANGED <<readyState, listeners, outstanding_calls, timers,
                            promises, callEvent, resolvers, nextUuid, emitted,
                            handled, workload, probe, running, reconnects>>
      ELSE IF event_info.type # "call"
        THEN Logged("Received call for emit message",
                    Get(message, "event"), FALSE, <<>>)
      ELSE /\ handled < workload.handled
           /\ handled' = handled + 1
           /\ \E o \in SpreadOutcomes(event_info.callback, Get(message, "args")) :
                /\ last' = Step("onMessage", "handling call", Get(message, "event"),
                                o.threw, o.invoked)
                /\ running' =
                     IF o.threw THEN running
                     ELSE running (+) SetToBag({[uuid |-> Get(message, "uuid"),
                                                 event |-> Get(message, "event"),
                                                 invocation |-> o.invoked[1]]})
           /\ UNCHANGED <<readyState, listeners, outstanding_calls, timers,
                          promises, callEvent, resolvers, nextUuid, emitted,
                          workload, probe, sent, reconnects>>

\* handleCall refusing a call while another handler is suspended.
handleCall_oneAtATime(message) ==
  LET event_info == Listener(Get(message, "event"))
  IN  IF message = Null
        THEN Logged("TypeError", Null, TRUE, <<>>)
      ELSE IF event_info = NoListener
        THEN Logged("Unknown call event", Get(message, "event"), FALSE, <<>>)
      ELSE IF event_info.type # "call"
        THEN Logged("Received call for emit message",
                    Get(message, "event"), FALSE, <<>>)
      ELSE IF running # EmptyBag
        THEN Logged("busy", Get(message, "event"), FALSE, <<>>)
      ELSE /\ handled < workload.handled
           /\ handled' = handled + 1
           /\ \E o \in SpreadOutcomes(event_info.callback, Get(message, "args")) :
                /\ last' = Step("onMessage", "handling call", Get(message, "event"),
                                o.threw, o.invoked)
                /\ running' =
                     IF o.threw THEN running
                     ELSE running (+) SetToBag({[uuid |-> Get(message, "uuid"),
                                                 event |-> Get(message, "event"),
                                                 invocation |-> o.invoked[1]]})
           /\ UNCHANGED <<readyState, listeners, outstanding_calls, timers,
                          promises, callEvent, resolvers, nextUuid, emitted,
                          workload, probe, sent, reconnects>>

handleCall(message) ==
  LET event_info == Listener(Get(message, "event"))
  IN  IF message = Null
        THEN \* message.event of null
             Logged("TypeError", Null, TRUE, <<>>)
      ELSE IF event_info = NoListener
        THEN Logged("Unknown call event", Get(message, "event"), FALSE, <<>>)
      ELSE IF event_info.type # "call"
        THEN Logged("Received call for emit message",
                    Get(message, "event"), FALSE, <<>>)
      ELSE /\ handled < workload.handled
           /\ handled' = handled + 1
           /\ \E o \in SpreadOutcomes(event_info.callback, Get(message, "args")) :
                /\ last' = Step("onMessage", "handling call", Get(message, "event"),
                                o.threw, o.invoked)
                /\ running' =
                     IF o.threw THEN running
                     ELSE running (+) SetToBag({[uuid |-> Get(message, "uuid"),
                                                 event |-> Get(message, "event"),
                                                 invocation |-> o.invoked[1]]})
           /\ UNCHANGED <<readyState, listeners, outstanding_calls, timers,
                          promises, callEvent, resolvers, nextUuid, emitted,
                          workload, probe, sent, reconnects>>

\* handleResponse without its clearTimeout.
handleResponse_keepsTimer(message) ==
  LET uuid == Get(message, "uuid")
      status == Get(message, "status")
  IN  IF ~(IsString(uuid) /\ uuid.v \in outstanding_calls)
        THEN Logged("Error: received event with unknown uuid", uuid, FALSE, <<>>)
      ELSE /\ resolvers' = [resolvers EXCEPT ![uuid.v] = @ \cup {"response"}]
           /\ promises' = [promises EXCEPT ![uuid.v] = Resolve(@, status)]
           /\ last' = Step("onMessage", "handling response", uuid, FALSE, <<>>)
           /\ UNCHANGED <<readyState, listeners, outstanding_calls, timers,
                          callEvent, nextUuid, emitted, handled, workload, probe, sent,
                          running, reconnects>>

\* handleResponse resolving with the whole response message.
handleResponse_wrongValue(message) ==
  LET uuid == Get(message, "uuid")
  IN  IF ~(IsString(uuid) /\ uuid.v \in outstanding_calls)
        THEN Logged("Error: received event with unknown uuid", uuid, FALSE, <<>>)
      ELSE /\ timers' = [timers EXCEPT ![uuid.v] =
                           IF @ = "armed" THEN "cleared" ELSE @]
           /\ resolvers' = [resolvers EXCEPT ![uuid.v] = @ \cup {"response"}]
           /\ promises' = [promises EXCEPT ![uuid.v] = Resolve(@, message)]
           /\ last' = Step("onMessage", "handling response", uuid, FALSE, <<>>)
           /\ UNCHANGED <<readyState, listeners, outstanding_calls, callEvent,
                          nextUuid, emitted, handled, workload, probe, sent, running,
                          reconnects>>

\* handleResponse without its has() check: the entry of an unknown uuid is
\* undefined and reading its timeoutId throws.
handleResponse_noCheck(message) ==
  LET uuid == Get(message, "uuid")
      status == Get(message, "status")
  IN  IF ~(IsString(uuid) /\ uuid.v \in outstanding_calls)
        THEN Logged("TypeError", uuid, TRUE, <<>>)
      ELSE /\ timers' = [timers EXCEPT ![uuid.v] =
                           IF @ = "armed" THEN "cleared" ELSE @]
           /\ resolvers' = [resolvers EXCEPT ![uuid.v] = @ \cup {"response"}]
           /\ promises' = [promises EXCEPT ![uuid.v] = Resolve(@, status)]
           /\ last' = Step("onMessage", "handling response", uuid, FALSE, <<>>)
           /\ UNCHANGED <<readyState, listeners, outstanding_calls, callEvent,
                          nextUuid, emitted, handled, workload, probe, sent, running,
                          reconnects>>

handleResponse(message) ==
  LET uuid == Get(message, "uuid")
      status == Get(message, "status")
  IN  IF ~(IsString(uuid) /\ uuid.v \in outstanding_calls)
        THEN Logged("Error: received event with unknown uuid", uuid, FALSE, <<>>)
      ELSE /\ timers' = [timers EXCEPT ![uuid.v] =
                           IF @ = "armed" THEN "cleared" ELSE @]
           /\ resolvers' = [resolvers EXCEPT ![uuid.v] = @ \cup {"response"}]
           /\ promises' = [promises EXCEPT ![uuid.v] = Resolve(@, status)]
           /\ last' = Step("onMessage", "handling response", uuid, FALSE, <<>>)
           /\ UNCHANGED <<readyState, listeners, outstanding_calls, callEvent,
                          nextUuid, emitted, handled, workload, probe, sent, running, reconnects>>

\* The frames the peer and the transport may deliver.
InEvents == {"get", "nope"}
InUuids == {Uuid(n) : n \in 0..MaxCalls}
RemoteUuids == {"r1", "r2"}

OkOnWire == Obj([status |-> Str("Ok"), payload |-> Str("game")])
ErrOnWire == Obj([status |-> Str("NotFound"), payload |-> Str("no game")])

EmitBody(event, args) == Obj([event |-> Str(event), args |-> args])
CallBody(event, uuid, args) ==
  Obj([event |-> Str(event), uuid |-> Str(uuid), args |-> args])
ResponseBody(uuid, status) == Obj([uuid |-> Str(uuid), status |-> status])

WellShapedEmits ==
  {EmitBody(e, Arr(<<>>)) : e \in InEvents} \cup {EmitBody("get", Arr(<<Num(1)>>))}
WellShapedCalls ==
  {CallBody(e, u, Arr(<<>>)) : e \in InEvents, u \in RemoteUuids}
    \cup {CallBody("get", "r1", Arr(<<Num(1)>>))}
WellShapedResponses ==
  {ResponseBody(u, s) : u \in InUuids, s \in {OkOnWire, ErrOnWire}}

IllShapedEmits ==
  {Null, EmitBody("get", Null), Obj([event |-> Str("get")]),
   Obj([event |-> Num(1), args |-> Arr(<<>>)])}
IllShapedCalls ==
  {Null, CallBody("get", "r1", Null),
   Obj([event |-> Str("get"), args |-> Arr(<<>>)])}
IllShapedResponses ==
  {Obj([uuid |-> Str(Uuid(1))]),
   ResponseBody(Uuid(1), Obj([status |-> Str("Bogus"), payload |-> Str("x")])),
   ResponseBody(Uuid(1), Obj([status |-> Str("NotFound"), payload |-> Num(1)])),
   Obj([uuid |-> Num(1), status |-> OkOnWire]),
   ResponseBody(Uuid(1), Obj([status |-> Str("toString"), payload |-> Str("x")])),
   ResponseBody(Uuid(1), Obj([status |-> Str("Ok"), message |-> Str("m")]))}

SingleKeyFrames ==
  {Obj([emit |-> b]) : b \in WellShapedEmits \cup IllShapedEmits}
    \cup {Obj([call |-> b]) : b \in WellShapedCalls \cup IllShapedCalls}
    \cup {Obj([response |-> b]) : b \in WellShapedResponses \cup IllShapedResponses}

MultiKeyFrames ==
  {Obj([emit |-> EmitBody("get", Arr(<<>>)),
        call |-> CallBody("get", "r1", Arr(<<>>))]),
   Obj([emit |-> EmitBody("get", Null),
        call |-> CallBody("get", "r1", Arr(<<>>))]),
   Obj([emit |-> Null, response |-> ResponseBody(Uuid(1), OkOnWire)]),
   Obj([call |-> CallBody("get", "r1", Arr(<<>>)),
        response |-> ResponseBody(Uuid(1), OkOnWire)]),
   Obj([emit |-> EmitBody("get", Arr(<<>>)),
        call |-> CallBody("get", "r1", Arr(<<>>)),
        response |-> ResponseBody(Uuid(1), OkOnWire)])}

NoKeyFrames ==
  {NotJson, Null, Str("hello"), Num(1), Arr(<<>>), Obj(<<>>),
   Obj([other |-> EmitBody("get", Arr(<<>>))])}

InboundData ==
  {Binary} \cup {Text(b) : b \in NoKeyFrames \cup SingleKeyFrames \cup MultiKeyFrames}

\* onMessage: frames are delivered only while the socket is open.
onMessage(data) ==
  /\ readyState = "OPEN"
  /\ LET message == parseMessage(data)
     IN  IF ~isMessage(message)
           THEN Logged("ill-formed message", Null, FALSE, <<>>)
         ELSE IF Get(message, "emit") # Undefined
           THEN handleEmit(Get(message, "emit"))
         ELSE IF Get(message, "call") # Undefined
           THEN handleCall(Get(message, "call"))
         ELSE IF Get(message, "response") # Undefined
           THEN handleResponse(Get(message, "response"))
         ELSE Logged("", Null, FALSE, <<>>)

----------------------------------------------------------------------------
(* Call handlers completing. *)

\* The Status values a call handler produces.
HandlerStatuses ==
  {makeOkStatus(Str("game")), makeErrStatus("NotFound", "no game")}

BagRemove(bag, x) == bag (-) SetToBag({x})

\* handleCall answering under the event name instead of the uuid.
handleCallResumes_wrongId(suspended, status) ==
  /\ BagIn(suspended, running)
  /\ running' = BagRemove(running, suspended)
  /\ sent' = sendMessage(ResponseFrame(suspended.event, status))
  /\ last' = Step("handleCall", "responding", suspended.uuid, SendThrows, <<>>)
  /\ UNCHANGED <<readyState, listeners, outstanding_calls, timers, promises,
                 callEvent, resolvers, nextUuid, emitted, handled, workload, probe, reconnects>>

\* handleCall after its await: the callback's promise fulfilled with `status`.
handleCallResumes(suspended, status) ==
  /\ BagIn(suspended, running)
  /\ running' = BagRemove(running, suspended)
  /\ sent' = sendMessage(ResponseFrame(suspended.uuid, status))
  /\ last' = Step("handleCall", "responding", suspended.uuid, SendThrows, <<>>)
  /\ UNCHANGED <<readyState, listeners, outstanding_calls, timers, promises,
                 callEvent, resolvers, nextUuid, emitted, handled, workload, probe, reconnects>>

\* handleCall catching the failure of the callback and answering with an Err.
handleCallFails_answersErr(suspended) ==
  /\ BagIn(suspended, running)
  /\ running' = BagRemove(running, suspended)
  /\ sent' = sendMessage(ResponseFrame(suspended.uuid,
                                       makeErrStatus("NotFound", "handler failed")))
  /\ last' = Step("handleCall", "", suspended.uuid, TRUE, <<>>)
  /\ UNCHANGED <<readyState, listeners, outstanding_calls, timers, promises,
                 callEvent, resolvers, nextUuid, emitted, handled, workload, probe, reconnects>>

\* The callback's promise rejected: the await throws and handleCall ends.
handleCallFails(suspended) ==
  /\ BagIn(suspended, running)
  /\ running' = BagRemove(running, suspended)
  /\ last' = Step("handleCall", "", suspended.uuid, TRUE, <<>>)
  /\ UNCHANGED <<readyState, listeners, outstanding_calls, timers, promises,
                 callEvent, resolvers, nextUuid, emitted, handled, workload, probe, sent, reconnects>>

----------------------------------------------------------------------------
(* The socket's life.  The transport opens the socket once, and closes it  *)
(* once: readyState is CLOSED when the error and close events are fired,   *)
(* and an error event is followed by the close event.                      *)

onOpen ==
  /\ readyState = "CONNECTING"
  /\ readyState' = "OPEN"
  /\ last' = Step("onOpen", "websocket opened", Null, FALSE, <<>>)
  /\ UNCHANGED <<listeners, outstanding_calls, timers, promises, callEvent,
                 resolvers, nextUuid, emitted, handled, workload, probe, sent, running, reconnects>>

onError ==
  /\ readyState \in {"CONNECTING", "OPEN"}
  /\ readyState' = "CLOSED"
  /\ last' = Step("onError", "websocket closed via error", Null, FALSE, <<>>)
  /\ UNCHANGED <<listeners, outstanding_calls, timers, promises, callEvent,
                 resolvers, nextUuid, emitted, handled, workload, probe, sent, running, reconnects>>

\* periodicallyTryReconnect has an empty body: the socket is not replaced.
periodicallyTryReconnect == reconnects' = reconnects + 1

\* onClose failing the calls that are pending.
onClose_failsPending ==
  /\ reconnects = 0
  /\ readyState \in {"OPEN", "CLOSED"}
  /\ readyState' = "CLOSED"
  /\ periodicallyTryReconnect
  /\ outstanding_calls' = {}
  /\ timers' = [u \in Uuids |-> IF timers[u] = "armed" THEN "cleared" ELSE timers[u]]
  /\ promises' = [u \in Uuids |->
                    Resolve(promises[u], makeErrStatus("NotFound", "connection closed"))]
  /\ last' = Step("onClose", "websocket closed", Null, FALSE, <<>>)
  /\ UNCHANGED <<listeners, callEvent, resolvers, nextUuid, emitted, handled,
                 workload, probe, sent, running>>

onClose ==
  /\ reconnects = 0
  /\ readyState \in {"OPEN", "CLOSED"}
  /\ readyState' = "CLOSED"
  /\ periodicallyTryReconnect
  /\ last' = Step("onClose", "websocket closed", Null, FALSE, <<>>)
  /\ UNCHANGED <<listeners, outstanding_calls, timers, promises, callEvent,
                 resolvers, nextUuid, emitted, handled, workload, probe, sent, running>>

----------------------------------------------------------------------------

Next ==
  \/ \E e \in EmitEvents, a \in EmitArgs : emit(e, a)
  \/ \E e \in ListenerNames, c \in Callbacks : on(e, c)
  \/ \E e \in ListenerNames, c \in Callbacks : respond(e, c)
  \/ \E e \in BaseNames : call(e)
  \/ \E e \in BaseNames : callTypeError(e)
  \/ \E u \in Uuids : addTimeout(u)
  \/ \E d \in InboundData : onMessage(d)
  \/ \E i \in BagToSet(running), s \in HandlerStatuses : handleCallResumes(i, s)
  \/ \E i \in BagToSet(running) : handleCallFails(i)
  \/ onOpen
  \/ onError
  \/ onClose

Spec == Init /\ [][Next]_vars

\* Every armed timer fires unless it is cleared first.
Fairness == \A u \in Uuids : WF_vars(addTimeout(u))

FairSpec == Spec /\ Fairness

\* Runs in which the peer is the one that calls: the application only
\* registers its handlers, and the peer's Call frames overlap.
HandlerInit ==
  /\ Constructed
  /\ workload = [calls |-> 0, emits |-> 0, handled |-> MaxInFlight,
                 registers |-> TRUE]
  /\ probe = NoProbe

HandlerNext ==
  \/ \E e \in ListenerNames, c \in Callbacks : on(e, c)
  \/ \E e \in ListenerNames, c \in Callbacks : respond(e, c)
  \/ \E d \in InboundData : onMessage(d)
  \/ \E i \in BagToSet(running), s \in HandlerStatuses : handleCallResumes(i, s)
  \/ \E i \in BagToSet(running) : handleCallFails(i)
  \/ onOpen
  \/ onError
  \/ onClose

HandlerSpec == HandlerInit /\ [][HandlerNext]_vars

----------------------------------------------------------------------------
(* The functions of status.ts and the codec of the frames, applied to      *)
(* inputs: each run picks one input and applies one function to it.        *)

socketVars == <<readyState, listeners, outstanding_calls, timers, promises,
                callEvent, resolvers, nextUuid, emitted, handled, workload,
                sent, running, reconnects, last>>

\* The values a Status carries.
PayloadValues ==
  {Null, Undefined, Str("game"), Num(1), Arr(<<Num(1)>>), Obj([a |-> Str("b")])}

ErrStatuses ==
  {makeErrStatus(c, m) : c \in StatusCode \ {"Ok"}, m \in {"", "no game"}}

FlatStatuses == {makeOkStatus(v) : v \in PayloadValues} \cup ErrStatuses

\* A Status inside the value of another Status, directly or inside an array
\* or an object.
NestedStatuses ==
  {makeOkStatus(s) : s \in FlatStatuses}
    \cup {makeOkStatus(Arr(<<s>>)) : s \in FlatStatuses}
    \cup {makeOkStatus(Obj([inner |-> s])) : s \in FlatStatuses}

StatusValues == FlatStatuses \cup NestedStatuses

\* Values that are no Status and no SerializedStatus.
MalformedShapes ==
  {Null, Str("Ok"), Arr(<<>>), Obj(<<>>),
   Obj([value |-> Num(1)]),
   Obj([message |-> Str("m")]),
   Obj([payload |-> Str("m")]),
   Obj([status |-> Num(1), value |-> Num(1)]),
   Obj([status |-> Num(1), message |-> Str("m")]),
   Obj([status |-> Num(1), payload |-> Str("m")]),
   Obj([status |-> Str("Bogus"), message |-> Str("m")]),
   Obj([status |-> Str("Bogus"), payload |-> Str("m")]),
   Obj([status |-> Str("toString"), message |-> Str("m")]),
   Obj([status |-> Str("toString"), payload |-> Str("m")]),
   Obj([status |-> Str("Ok")]),
   Obj([status |-> Str("Ok"), message |-> Str("m")]),
   Obj([status |-> Str("NotFound")]),
   Obj([status |-> Str("NotFound"), message |-> Num(1)]),
   Obj([status |-> Str("NotFound"), payload |-> Num(1)]),
   Obj([status |-> Str("NotFound"), value |-> Str("m")])}

\* Frames whose arguments or status hold Status values.
FramesWithStatuses ==
  {CallFrame("new_game", Uuid(1), <<s>>) : s \in StatusValues}
    \cup {CallFrame("new_game", Uuid(1), <<Num(1), Obj([k |-> Arr(<<s>>)])>>) :
            s \in StatusValues}
    \cup {ResponseFrame(Str("r1"), s) : s \in StatusValues}

ProbeInputs == StatusValues \cup MalformedShapes \cup FramesWithStatuses

FunctionInit ==
  /\ Constructed
  /\ workload = [calls |-> 0, emits |-> 0, handled |-> 0, registers |-> FALSE]
  /\ probe \in {Probe("input", x, Null) : x \in ProbeInputs}

\* deserializeStatus(serializeStatus(s)) for a Status s.
statusRoundTrip ==
  /\ probe.op = "input"
  /\ probe.input \in StatusValues
  /\ probe' = Probe("statusRoundTrip", probe.input,
                    deserializeStatus(serializeStatus(probe.input)))
  /\ UNCHANGED socketVars

\* The frame as sendMessage writes it, read back by parseMessage.
frameRoundTrip ==
  /\ probe.op = "input"
  /\ probe.input \in FramesWithStatuses
  /\ probe' = Probe("frameRoundTrip", probe.input,
                    parseMessage(Text(Stringify(probe.input))))
  /\ UNCHANGED socketVars

applyIsStatus ==
  /\ probe.op = "input"
  /\ probe' = Probe("isStatus", probe.input, isStatus(probe.input))
  /\ UNCHANGED socketVars

applyIsSerializedStatus ==
  /\ probe.op = "input"
  /\ probe' = Probe("isSerializedStatus", probe.input,
                    isSerializedStatus(probe.input))
  /\ UNCHANGED socketVars

FunctionNext ==
  \/ statusRoundTrip
  \/ frameRoundTrip
  \/ applyIsStatus
  \/ applyIsSerializedStatus

FunctionSpec == FunctionInit /\ [][FunctionNext]_vars

----------------------------------------------------------------------------
(* Properties. *)

\* The Response frame for `uuid` carrying the serialized status `status`.
ResponseText(uuid, status) == Text(Obj([response |-> ResponseBody(uuid, status)]))

StatusesOnWire == {OkOnWire, ErrOnWire}

\* The Status each serialized status stands for.
Carried(status) ==
  IF status = OkOnWire THEN makeOkStatus(Str("game"))
  ELSE makeErrStatus("NotFound", "no game")

Settled(u) == promises[u].state \in {"fulfilled", "rejected"}
Pending(u) == promises[u].state = "pending"

\* C1: a call's promise is settled at most once and, once settled, keeps its
\* value whatever arrives or fires later; its resolve is never invoked both
\* by a response and by the timeout; a response that arrives after the
\* timeout has fired is discarded without resolving anything or throwing.
C1_AtMostOneResolution ==
  /\ [](\A u \in Uuids : Cardinality(resolvers[u]) <= 1)
  /\ [][\A u \in Uuids : Settled(u) => promises'[u] = promises[u]]_vars
  /\ [][\/ /\ UNCHANGED <<promises, resolvers, timers, outstanding_calls>>
           /\ ~last'.threw
        \/ \A u \in Uuids, s \in StatusesOnWire :
             ~(timers[u] = "fired" /\ onMessage(ResponseText(u, s)))]_vars

\* A response arrived for a call whose timeout had already resolved it.
C1_Witness ==
  \E u \in Uuids :
    /\ timers[u] = "fired"
    /\ resolvers[u] = {"timeout"}
    /\ promises[u].state = "fulfilled"
    /\ last.log = "Error: received event with unknown uuid"
    /\ last.arg = Str(u)

\* C2: a Response frame whose uuid matches a pending call clears the call's
\* timer, which never fires afterwards, and resolves the promise with the
\* Status the frame carries.
C2_ResponseResolves ==
  /\ [][\A u \in Uuids, s \in StatusesOnWire :
          (Pending(u) /\ u \in outstanding_calls /\ onMessage(ResponseText(u, s)))
            => /\ timers'[u] = "cleared"
               /\ promises'[u] = Fulfilled(Carried(s))]_vars
  /\ [][\A u \in Uuids : timers[u] = "cleared" => timers'[u] = "cleared"]_vars

\* A pending call was resolved by its response.
C2_Witness ==
  \E u \in Uuids :
    /\ timers[u] = "cleared"
    /\ promises[u] = Fulfilled(makeErrStatus("NotFound", "no game"))
    /\ last.log = "handling response"
    /\ last.arg = Str(u)

\* C3: a call that a matching Response has resolved has no entry in the
\* table: the table holds only calls that are not resolved yet, and it is
\* empty once every issued call is resolved.
C3_ResolvedCallsLeaveTable ==
  /\ \A u \in outstanding_calls : promises[u].state # "fulfilled"
  /\ (\A u \in Uuids : promises[u].state \in {"none", "fulfilled"})
       => outstanding_calls = {}

\* C4 as claimed: the timeout of a pending call removes its entry and
\* resolves it with Err(MessageTimeout, "<event> timed out after 1 second").
C4_TimeoutMessageAsClaimed ==
  [][\A u \in Uuids :
       (Pending(u) /\ addTimeout(u))
         => /\ u \notin outstanding_calls'
            /\ promises'[u] =
                 Fulfilled(makeErrStatus("MessageTimeout",
                                         callEvent[u] \o " timed out after 1 second"))]_vars

\* C4: the timeout of a pending call removes its entry and resolves it with
\* Err(MessageTimeout, "Async socket call <event> timed out after 1 second").
C4_TimeoutResolves ==
  [][\A u \in Uuids :
       (Pending(u) /\ addTimeout(u))
         => /\ u \notin outstanding_calls'
            /\ promises'[u] =
                 Fulfilled(makeErrStatus("MessageTimeout",
                                         "Async socket call " \o callEvent[u]
                                           \o " timed out after 1 second"))]_vars

\* A call of new_game was resolved by its timeout.
C4_Witness ==
  \E u \in Uuids :
    /\ timers[u] = "fired"
    /\ u \notin outstanding_calls
    /\ promises[u] =
         Fulfilled(makeErrStatus("MessageTimeout",
                                 "Async socket call new_game timed out after 1 second"))

\* C5: a Response frame whose uuid has no entry in the table is discarded:
\* no promise is resolved, no timer is cleared, the table is unchanged and
\* nothing is thrown.
C5_OrphanResponseDiscarded ==
  [][\/ /\ UNCHANGED <<promises, timers, outstanding_calls, resolvers>>
        /\ ~last'.threw
     \/ \A u \in InUuids, s \in StatusesOnWire :
          ~(u \notin outstanding_calls /\ onMessage(ResponseText(u, s)))]_vars

\* A response for a call that had timed out was discarded while another
\* call was pending.
C5_Witness ==
  \E u, w \in Uuids :
    /\ u # w
    /\ timers[u] = "fired"
    /\ last.log = "Error: received event with unknown uuid"
    /\ last.arg = Str(u)
    /\ w \in outstanding_calls
    /\ timers[w] = "armed"
    /\ Pending(w)

\* C6: every call issued with call() is eventually resolved by a matching
\* response or by its timeout, whatever the peer sends and whatever the
\* state of the connection is when the call is issued.
C6_EveryCallResolved ==
  \A u \in Uuids :
    (promises[u].state # "none")
      ~> (promises[u].state = "fulfilled" /\ resolvers[u] # {})

\* An event name has a pair binding when the endpoint sends its request and
\* listens for its response.
HasPairBinding(event_name) ==
  /\ (event_name \o "_req") \in EmitEvents
  /\ (event_name \o "_res") \in ListenEvents

CallFramesSent ==
  {f \in BagToSet(sent) : f.kind = "text" /\ Has("call", f.body)}

\* C7: call() for an event name without a request/response pair binding
\* fails before anything runs: every Call frame written to the socket and
\* every entry of the table belongs to an event with a pair binding, and the
\* failing invocation leaves the frames sent, the table, the timers and the
\* promises as they were.
C7_UnboundCallFails ==
  /\ [](\A u \in outstanding_calls : HasPairBinding(callEvent[u]))
  /\ [](\A f \in CallFramesSent :
          HasPairBinding(Get(Get(f.body, "call"), "event").v))
  /\ [][last'.op = "call_type_error"
          => UNCHANGED <<sent, outstanding_calls, timers, promises>>]_vars

\* call() was invoked on an open socket for "lonely", which has a request
\* event and no response event; "new_game" had been called before.
C7_Witness ==
  /\ last.op = "call_type_error"
  /\ last.arg = Str("lonely")
  /\ ~HasPairBinding("lonely")
  /\ readyState = "OPEN"
  /\ CallFramesSent # {}

\* The shapes of the wire format, read off the frame as the peer wrote it.
WireArgsOk(args) == IsArray(args) \/ args = Null

WireStatusOk(status) ==
  /\ IsObject(status)
  /\ IsString(Get(status, "status"))
  /\ Get(status, "status").v \in StatusCode
  /\ Has("payload", status)
  /\ Get(status, "status").v # "Ok" => IsString(Get(status, "payload"))

WireEmitOk(body) ==
  /\ IsObject(body)
  /\ IsString(Get(body, "event"))
  /\ Has("args", body) /\ WireArgsOk(Get(body, "args"))

WireCallOk(body) == WireEmitOk(body) /\ IsString(Get(body, "uuid"))

WireResponseOk(body) ==
  /\ IsObject(body)
  /\ IsString(Get(body, "uuid"))
  /\ Has("status", body) /\ WireStatusOk(Get(body, "status"))

TopLevelKeys(data) ==
  IF data.kind = "text" /\ data.body # NotJson /\ data.body.t = "obj"
    THEN {k \in {"emit", "call", "response"} : Has(k, data.body)}
    ELSE {}

\* A text frame none of whose top-level fields is a well-shaped frame body.
Malformed(data) ==
  /\ data.kind = "text"
  /\ ~("emit" \in TopLevelKeys(data) /\ WireEmitOk(Get(data.body, "emit")))
  /\ ~("call" \in TopLevelKeys(data) /\ WireCallOk(Get(data.body, "call")))
  /\ ~("response" \in TopLevelKeys(data)
         /\ WireResponseOk(Get(data.body, "response")))

\* The step handed the frame to no handler, resolved and removed no call,
\* sent nothing, threw nothing and left the connection as it was.
Dropped ==
  /\ UNCHANGED <<readyState, listeners, outstanding_calls, timers, promises,
                 resolvers, sent, running>>
  /\ last'.invoked = <<>>
  /\ ~last'.threw

\* C8: a text frame that is not JSON, or that matches none of the three
\* frame shapes or fails the validation of its fields, is dropped without
\* raising: no handler runs, no pending call is resolved or removed, nothing
\* is sent and the connection state is unchanged.
C8_MalformedFrameDropped ==
  [][\/ Dropped
     \/ \A d \in InboundData : ~(Malformed(d) /\ onMessage(d))]_vars

\* C9: a frame is dispatched only if exactly one of emit, call and response
\* is present; a frame carrying more than one of them, or none, is dropped.
C9_ExactlyOneField ==
  [][\/ Dropped
     \/ \A d \in InboundData :
          ~(Cardinality(TopLevelKeys(d)) # 1 /\ onMessage(d))]_vars

\* The well-shaped Emit and Call frames naming `event`.
FramesNaming(event) ==
  {Text(Obj([emit |-> b])) : b \in {w \in WellShapedEmits : Get(w, "event") = Str(event)}}
    \cup {Text(Obj([call |-> b])) :
            b \in {w \in WellShapedCalls : Get(w, "event") = Str(event)}}

\* C10: an Emit or Call frame naming an event with no registered handler is
\* dropped: no handler is invoked, no Response frame is sent, nothing is
\* thrown, and the registry and the table of outstanding calls are unchanged.
C10_UnknownEventDropped ==
  [][\/ /\ UNCHANGED <<listeners, outstanding_calls, sent, running, promises, timers>>
        /\ last'.invoked = <<>>
        /\ ~last'.threw
     \/ \A e \in InEvents :
          \A d \in FramesNaming(e) :
            ~(listeners[e] = NoListener /\ onMessage(d))]_vars

\* A Call frame for the unregistered event "nope" was dropped while a handler
\* was registered for "get".
C10_Witness ==
  /\ last.op = "onMessage"
  /\ last.log = "Unknown call event"
  /\ last.arg = Str("nope")
  /\ listeners["nope"] = NoListener
  /\ listeners["get"] # NoListener

\* The frame is of one kind and the handler registered for its event of the
\* other.
KindMismatch(event, data) ==
  \/ Has("call", data.body) /\ listeners[event].type = "emit"
  \/ Has("emit", data.body) /\ listeners[event].type = "call"

\* C11: a Call frame for an event registered with on(), and an Emit frame
\* for an event registered with respond(), are dropped: the registered
\* callback is not invoked, no invocation is left running and no Response
\* frame is sent.
C11_WrongKindDropped ==
  [][\/ /\ UNCHANGED <<listeners, sent, running>>
        /\ last'.invoked = <<>>
     \/ \A e \in InEvents :
          \A d \in FramesNaming(e) : ~(KindMismatch(e, d) /\ onMessage(d))]_vars

\* A Call frame for "get" arrived while "get" was registered with on().
C11_Witness ==
  /\ last.op = "onMessage"
  /\ last.log = "Received call for emit message"
  /\ last.arg = Str("get")
  /\ listeners["get"].type = "emit"

\* C12: the registry has one entry per event name.  A registration with on()
\* or respond() replaces whatever entry the name had, of either kind, and
\* leaves the other names alone; the callback a frame invokes is the one the
\* registry holds for the frame's event when the frame arrives.
C12_LastRegistrationWins ==
  /\ [][\A e \in ListenerNames, c \in Callbacks :
          /\ on(e, c) => listeners' = [listeners EXCEPT ![e] = EmitListenerInfo(c)]
          /\ respond(e, c)
               => listeners' = [listeners EXCEPT ![e] = CallListenerInfo(c)]]_vars
  /\ [][(last'.op = "onMessage" /\ last'.invoked # <<>>)
          => /\ Len(last'.invoked) = 1
             /\ last'.invoked[1].callback = Listener(last'.arg).callback]_vars

\* "get" was registered with respond(f) and f is still running for a call;
\* "get" was then registered with on(g), and an Emit frame invoked g.
C12_Witness ==
  /\ \E r \in BagToSet(running) :
       r.event = Str("get") /\ r.invocation.callback = "f"
  /\ listeners["get"] = EmitListenerInfo("g")
  /\ last.log = "handling emit"
  /\ last.invoked = <<Invocation("g", <<>>)>>

\* The wire form of each Status a handler produces.
OnWire(status) ==
  IF status = makeOkStatus(Str("game")) THEN OkOnWire ELSE ErrOnWire

ResponseFramesSent ==
  {f \in BagToSet(sent) : f.kind = "text" /\ Has("response", f.body)}

NumResponsesSent ==
  BagCardinality([f \in ResponseFramesSent |-> sent[f]])

\* C13: a Call frame whose event has a registered call handler invokes that
\* handler once, with the frame's arguments, and sends nothing yet; when the
\* handler produces its Status while the connection is open, exactly one
\* Response frame is sent, with the uuid of that Call frame and that Status;
\* Response frames are sent at no other point.
C13_CallAnswered ==
  /\ [][\A b \in WellShapedCalls :
          (listeners[Get(b, "event").v].type = "call"
             /\ onMessage(Text(Obj([call |-> b]))))
            => LET invocation ==
                     Invocation(listeners[Get(b, "event").v].callback,
                                Get(b, "args").v)
               IN  /\ last'.invoked = <<invocation>>
                   /\ running' = running (+) SetToBag({[uuid |-> Get(b, "uuid"),
                                                        event |-> Get(b, "event"),
                                                        invocation |-> invocation]})
                   /\ sent' = sent]_vars
  /\ [][\A i \in BagToSet(running), s \in HandlerStatuses :
          (readyState = "OPEN" /\ handleCallResumes(i, s))
            => /\ sent' = sent (+) SetToBag({Text(Obj([response |->
                                   Obj([uuid |-> i.uuid, status |-> OnWire(s)])]))})
               /\ running' = running (-) SetToBag({i})]_vars
  /\ [][NumResponsesSent' # NumResponsesSent
          => last'.op = "handleCall" /\ NumResponsesSent' = NumResponsesSent + 1]_vars

\* The handler of "get" answered the call r1 with Err(NotFound) and the
\* Response frame was sent.
C13_Witness ==
  /\ last.op = "handleCall"
  /\ last.log = "responding"
  /\ last.arg = Str("r1")
  /\ readyState = "OPEN"
  /\ BagIn(Text(Obj([response |-> Obj([uuid |-> Str("r1"), status |-> ErrOnWire])])),
           sent)

\* C14: for every valid Status s, Ok with any value and Err with any error
\* code and message, deserializeStatus(serializeStatus(s)) equals s: same
\* tag, same value or message, and no other field.
C14_StatusRoundTrip ==
  probe.op = "statusRoundTrip" => probe.output = probe.input

\* The round trip was applied to an Ok whose value is an Err.
C14_Witness ==
  /\ probe.op = "statusRoundTrip"
  /\ probe.input = makeOkStatus(makeErrStatus("NotFound", "no game"))
  /\ probe.output = probe.input

\* C15: a frame whose call arguments or response status hold Status values,
\* nested at any depth in objects, arrays or other Status values, is
\* reproduced unchanged by sendMessage's encoding followed by parseMessage:
\* every embedded Status comes back with the same tag and value or message.
C15_FrameRoundTrip ==
  probe.op = "frameRoundTrip" => probe.output = probe.input

\* The malformed shapes of a Status: no status field, a tag that is no
\* string or no status code, a success tag without a value field, a failure
\* tag whose message is no string.
MalformedAsStatus(x) ==
  \/ ~Has("status", x)
  \/ ~IsString(Get(x, "status"))
  \/ Get(x, "status").v \notin StatusCode
  \/ Get(x, "status") = Str("Ok") /\ ~Has("value", x)
  \/ Get(x, "status") # Str("Ok") /\ ~IsString(Get(x, "message"))

\* The same for a SerializedStatus, with payload for value and message.
MalformedAsSerialized(x) ==
  \/ ~Has("status", x)
  \/ ~IsString(Get(x, "status"))
  \/ Get(x, "status").v \notin StatusCode
  \/ Get(x, "status") = Str("Ok") /\ ~Has("payload", x)
  \/ Get(x, "status") # Str("Ok") /\ ~IsString(Get(x, "payload"))

\* C16: isStatus returns false for every malformed shape of a Status and
\* isSerializedStatus for every malformed shape of a SerializedStatus.
C16_ValidatorsReject ==
  /\ (probe.op = "isStatus" /\ MalformedAsStatus(probe.input))
       => probe.output = FALSE
  /\ (probe.op = "isSerializedStatus" /\ MalformedAsSerialized(probe.input))
       => probe.output = FALSE

\* The step is an emit(), a call() or the answer of a call handler: each
\* ends in one sendMessage.
Sends(step) ==
  \/ step.op \in {"emit", "call"}
  \/ step.op = "handleCall" /\ step.log = "responding"

\* C17: an emit(), a call() or the Response of a call handler attempted
\* while the connection is closed fails with an error raised to its caller,
\* and the frame is not handed to the transport.
C17_ClosedSendFails ==
  [][(readyState = "CLOSED" /\ Sends(last'))
       => (last'.threw /\ sent' = sent)]_vars

\* C18: emit() and call() invoked with no arguments on an open connection
\* write a frame whose args field is null.
C18_NoArgumentsIsNull ==
  [][/\ \A e \in EmitEvents :
          (readyState = "OPEN" /\ emit(e, <<>>))
            => sent' = sent (+) SetToBag({Text(Obj([emit |->
                                   Obj([event |-> Str(e), args |-> Null])]))})
     /\ \A e \in BaseNames :
          (readyState = "OPEN" /\ call(e))
            => sent' = sent (+) SetToBag({Text(Obj([call |->
                                   Obj([event |-> Str(e),
                                        uuid |-> Str(Uuid(nextUuid')),
                                        args |-> Null])]))})]_vars

C20_FailureKeepsCalls ==
  /\ [][last'.op \in {"onClose", "onError"}
          => UNCHANGED <<outstanding_calls, timers, promises, resolvers>>]_vars
  /\ [][\A u \in Uuids :
          (readyState = "CLOSED" /\ Pending(u) /\ promises'[u] # promises[u])
            => /\ last'.op = "timeout"
               /\ promises'[u] =
                    Fulfilled(makeErrStatus("MessageTimeout",
                                            "Async socket call " \o callEvent[u]
                                              \o " timed out after 1 second"))]_vars
  /\ \A u \in Uuids :
       (readyState = "CLOSED" /\ Pending(u))
         ~> (promises[u].state = "fulfilled" /\ resolvers[u] = {"timeout"})

\* A call sent on the open connection was still pending when the connection
\* closed, and its timeout has now resolved it.
C20_Witness ==
  \E u \in Uuids :
    /\ readyState = "CLOSED"
    /\ reconnects = 1
    /\ \E f \in CallFramesSent : Get(Get(f.body, "call"), "uuid") = Str(u)
    /\ last.op = "timeout"
    /\ last.arg = Str(u)
    /\ resolvers[u] = {"timeout"}
    /\ promises[u].state = "fulfilled"

\* The uuids of the Response frames in a bag of frames, as a bag.
ResponseUuids(frames) ==
  LET responses == {f \in BagToSet(frames) : f.kind = "text" /\ Has("response", f.body)}
      uuidOf(f) == Get(Get(f.body, "response"), "uuid")
  IN  [u \in {uuidOf(f) : f \in responses} |->
         BagCardinality([f \in {g \in responses : uuidOf(g) = u} |-> frames[f]])]

\* C21: a suspended call handler does not block the connection.  While
\* handlers are suspended, an arriving Emit frame still invokes its emit
\* handler and an arriving Call frame starts a further handler beside the
\* suspended ones, which stay as they are; and whichever suspended handler
\* completes, the Response sent carries the uuid of the Call frame that
\* started it and the other handlers stay suspended.
C21_HandlersOverlap ==
  /\ [][running = EmptyBag
          \/ /\ \A b \in WellShapedEmits :
                  ~(listeners[Get(b, "event").v].type = "emit"
                      /\ onMessage(Text(Obj([emit |-> b]))))
                    \/ /\ last'.invoked =
                            <<Invocation(listeners[Get(b, "event").v].callback,
                                         Get(b, "args").v)>>
                       /\ running' = running
             /\ \A b \in WellShapedCalls :
                  ~(listeners[Get(b, "event").v].type = "call"
                      /\ onMessage(Text(Obj([call |-> b]))))
                    \/ /\ BagCardinality(running') = BagCardinality(running) + 1
                       /\ running' (-) running =
                            SetToBag({[uuid |-> Get(b, "uuid"),
                                       event |-> Get(b, "event"),
                                       invocation |-> last'.invoked[1]]})]_vars
  /\ [][(readyState = "OPEN" /\ last'.op = "handleCall" /\ last'.log = "responding")
          => /\ ResponseUuids(sent') =
                  ResponseUuids(sent) (+) SetToBag({last'.arg})
             /\ \E i \in BagToSet(running) :
                  /\ i.uuid = last'.arg
                  /\ running' = running (-) SetToBag({i})]_vars

\* The handlers of the calls r1 and r2 were in flight together; the one of
\* r2 has completed and its Response is sent while the one of r1 is still
\* suspended.
C21_Witness ==
  /\ last.op = "handleCall"
  /\ last.log = "responding"
  /\ last.arg = Str("r2")
  /\ \E i \in BagToSet(running) : i.uuid = Str("r1")
  /\ \E f \in ResponseFramesSent : Get(Get(f.body, "response"), "uuid") = Str("r2")
  /\ \A f \in ResponseFramesSent : Get(Get(f.body, "response"), "uuid") # Str("r1")

\* The uuids under which a call has been issued.
Issued == {u \in Uuids : promises[u].state # "none"}

\* C22: the calls issued have as many different uuids as there are calls,
\* every entry of the table belongs to exactly one of them, and issuing a
\* call adds one entry under a uuid no call had before, leaving the entry,
\* the timer and the promise of every other call as they were.
C22_OneEntryPerUuid ==
  /\ [](Cardinality(Issued) = nextUuid)
  /\ [](outstanding_calls \subseteq Issued)
  /\ [][last'.op = "call"
          => \E u \in Uuids \ Issued :
               /\ last'.arg = Str(u)
               /\ u \notin outstanding_calls
               /\ outstanding_calls' = outstanding_calls \cup {u}
               /\ \A v \in Uuids \ {u} :
                    /\ promises'[v] = promises[v]
                    /\ timers'[v] = timers[v]
                    /\ callEvent'[v] = callEvent[v]
                    /\ resolvers'[v] = resolvers[v]]_vars

\* A second call was issued while the first was pending: the table holds
\* both, under different uuids.
C22_Witness ==
  /\ last.op = "call"
  /\ last.arg = Str(Uuid(2))
  /\ outstanding_calls = {Uuid(1), Uuid(2)}
  /\ Pending(Uuid(1))
  /\ Pending(Uuid(2))

\* C23: the timer of one call firing removes and resolves that call only:
\* the entries, timers, promises and resolver records of all other calls
\* are unchanged.  For one call, the timer is either cancelled or fires,
\* never both: a cancelled timer stays cancelled, a fired one stays fired,
\* the entry of a call leaves the table only in the step in which its own
\* timer fires, and the step that cancels a timer leaves the table alone.
C23_TimersIndependent ==
  /\ [][last'.op = "timeout"
          => \E u \in Uuids :
               /\ last'.arg = Str(u)
               /\ timers[u] = "armed" /\ timers'[u] = "fired"
               /\ outstanding_calls' = outstanding_calls \ {u}
               /\ \A v \in Uuids \ {u} :
                    /\ timers'[v] = timers[v]
                    /\ promises'[v] = promises[v]
                    /\ resolvers'[v] = resolvers[v]]_vars
  /\ [][\A u \in Uuids :
          /\ timers[u] \in {"cleared", "fired"} => timers'[u] = timers[u]
          /\ (u \in outstanding_calls /\ u \notin outstanding_calls')
               => (last'.op = "timeout" /\ last'.arg = Str(u)
                     /\ timers[u] = "armed" /\ timers'[u] = "fired")
          /\ (timers[u] # "cleared" /\ timers'[u] = "cleared")
               => outstanding_calls' = outstanding_calls]_vars

\* Of two pending calls the first has timed out; the second is still in the
\* table with its timer armed and its promise pending.
C23_Witness ==
  /\ last.op = "timeout"
  /\ last.arg = Str(Uuid(1))
  /\ timers[Uuid(1)] = "fired"
  /\ Uuid(1) \notin outstanding_calls
  /\ Uuid(2) \in outstanding_calls
  /\ timers[Uuid(2)] = "armed"
  /\ Pending(Uuid(2))

\* C24: an Emit or Call frame whose args field is null is accepted and
\* dispatched: the handler registered for its event is invoked with no
\* arguments.
C24_NullArgsDispatched ==
  [][/\ (listeners["get"].type = "emit"
           /\ onMessage(Text(Obj([emit |-> EmitBody("get", Null)]))))
          => last'.invoked = <<Invocation(listeners["get"].callback, <<>>)>>
     /\ (listeners["get"].type = "call"
           /\ onMessage(Text(Obj([call |-> CallBody("get", "r1", Null)]))))
          => last'.invoked = <<Invocation(listeners["get"].callback, <<>>)>>]_vars

\* C25: call() has armed the timer and stored the entry under its uuid by
\* the time it hands the Call frame to the socket, also when the socket
\* then refuses the frame; the frame it sends carries that uuid; and every
\* Call frame sent has its uuid in the table or its call already settled.
C25_StoredBeforeSent ==
  /\ [][last'.op = "call"
          => \E u \in Uuids :
               /\ last'.arg = Str(u)
               /\ u \in outstanding_calls'
               /\ timers'[u] = "armed"
               /\ \/ sent' = sent
                  \/ \E f \in CallFramesSent' :
                       /\ Get(Get(f.body, "call"), "uuid") = Str(u)
                       /\ sent' = sent (+) SetToBag({f})]_vars
  /\ [](\A f \in CallFramesSent :
          \E u \in Uuids :
            /\ Get(Get(f.body, "call"), "uuid") = Str(u)
            /\ u \in outstanding_calls \/ Settled(u))

\* The Call frame of a call just issued is on the wire and its entry is in
\* the table, the timer armed and the promise pending.
C25_Witness ==
  /\ last.op = "call"
  /\ ~last.threw
  /\ last.arg = Str(Uuid(1))
  /\ \E f \in CallFramesSent : Get(Get(f.body, "call"), "uuid") = Str(Uuid(1))
  /\ Uuid(1) \in outstanding_calls
  /\ timers[Uuid(1)] = "armed"
  /\ Pending(Uuid(1))

\* C26: the promise call() returns is never rejected: whatever the state
\* of the connection when call() runs, once settled the promise holds a
\* Status.
C26_CallNeverRejects ==
  \A u \in Uuids :
    /\ promises[u].state # "rejected"
    /\ promises[u].state = "fulfilled" => isStatus(promises[u].value)

\* The step in which a call handler failed.
HandlerFailed(step) == step.op = "handleCall" /\ step.threw

\* C27: when a call handler fails, its invocation ends and nothing is sent;
\* the registry, the table of outstanding calls, the timers, the promises
\* and the connection are as before and the other handlers stay suspended;
\* and the frames that arrive next are dispatched as ever: an Emit frame
\* invokes its emit handler, a Call frame starts its call handler.
C27_HandlerFailureContained ==
  /\ [][HandlerFailed(last')
          => /\ UNCHANGED <<sent, listeners, outstanding_calls, timers, promises,
                            readyState>>
             /\ \E i \in BagToSet(running) :
                  /\ i.uuid = last'.arg
                  /\ running' = running (-) SetToBag({i})]_vars
  /\ [][~HandlerFailed(last)
          \/ /\ \A b \in WellShapedEmits :
                  ~(listeners[Get(b, "event").v].type = "emit"
                      /\ onMessage(Text(Obj([emit |-> b]))))
                    \/ last'.invoked =
                         <<Invocation(listeners[Get(b, "event").v].callback,
                                      Get(b, "args").v)>>
             /\ \A b \in WellShapedCalls :
                  ~(listeners[Get(b, "event").v].type = "call"
                      /\ onMessage(Text(Obj([call |-> b]))))
                    \/ running' =
                         running (+) SetToBag({[uuid |-> Get(b, "uuid"),
                                                event |-> Get(b, "event"),
                                                invocation |->
                                                  Invocation(listeners[Get(b, "event").v].callback,
                                                             Get(b, "args").v)]})]_vars

\* The handler of one call has failed without a Response, and the Call frame
\* r2 that arrived afterwards has started its handler.
C27_Witness ==
  /\ last.op = "onMessage"
  /\ last.log = "handling call"
  /\ readyState = "OPEN"
  /\ handled = 2
  /\ BagCardinality(running) = 1
  /\ \E i \in BagToSet(running) : i.uuid = Str("r2")
  /\ ResponseFramesSent = {}

====
